---- MODULE Spec2Model ----
(***************************************************************************)
(* Scheduled-publish dispatch of linkedinwarrior: the content_items rows,  *)
(* the Celery queue of publish_post_task messages and their retry chains,  *)
(* the periodic enqueue_due_posts sweep, the APScheduler fallback poller,  *)
(* and the content API handlers that schedule, edit, delete and publish.   *)
(*                                                                         *)
(* Time is a number of seconds.  Store writes are single statements; an    *)
(* update filtered on a row that is absent affects nothing.                *)
(***************************************************************************)
EXTENDS Integers, Sequences, FiniteSets, TLC

\* ---------------------------------------------------------------- bounds
MaxTime == 480
TimeStep == 120
MaxPosts == 2
MaxSchedules == 2

\* ------------------------------------------------------ program constants
max_retries == 3
backoff_base == 60
SweepWindow == 180
SweepInterval == 120
PollInterval == 60
ImmediateHorizon == 300

\* ------------------------------------------------------------ value sets
Items == {1, 2}
InitialItems == {1}
SchedTimes == {0, 420}
ContentStatus == {"draft", "approved", "scheduled", "publishing", "published", "failed"}
NoTime == -1
NoPost == 0
Chains == {1, 2}
Users == {"u1", "u2"}
MAX_TASKS_PER_USER == 50
MaxCreates == 52
MaxTracked == 1
MaxHours == 3
MaxSeconds == 3
MaxChecks == 4
LimiterKeys == {<<"u1", "content_generate">>, <<"u1", "research">>, <<"u2", "content_generate">>}
Deliveries == {1, 2, 3}
EmailIds == {"e1", "e2"}
ExpiryHours == {1, 2}
IdleDelivery == [pc |-> "idle", email_id |-> "", status |-> ""]

\* The periodic maintenance jobs and the hours between two runs of each.
MaintenanceJobs == {"daily_analytics_snapshot", "purge_old_history", "purge_expired_emails"}
EveryHours(j) ==
  IF j = "purge_expired_emails" THEN 1 ELSE IF j = "purge_old_history" THEN 6 ELSE 24

\* The maintenance jobs each scheduler registers: celery.conf.beat_schedule,
\* and the add_job calls of _start_apscheduler.
beat_schedule == {"daily_analytics_snapshot", "purge_old_history"}
apscheduler_jobs == {"daily_analytics_snapshot", "purge_old_history", "purge_expired_emails"}

VARIABLES
  now,            \* wall clock, seconds
  redis_up,       \* the Redis broker answers
  api,            \* content API requests between their status check and their write, by item
  started,        \* start_scheduler has run
  USE_CELERY,     \* scheduler._USE_CELERY
  content_items,  \* the content_items table, by id
  account,        \* users.unipile_account_id is set
  chains,         \* publish_post_task messages and executions, by chain
  last_sweep,     \* time of the last enqueue_due_posts run, NoTime before the first
  last_poll,      \* time of the last _fire_scheduled_posts_legacy run
  poll,           \* the running _fire_scheduled_posts_legacy job
  manual,         \* publish_content requests awaiting the Publisher, by item
  posts_made,     \* posts the Publisher created, by item
  sched_count,    \* times each item was put on the schedule
  store_fails,    \* calls to the store may raise
  tasks,          \* task_manager._tasks: each user's list of TaskInfo
  created,        \* per user, how many TaskInfo objects create_task has made
  emails,         \* the rows of the emails table, in insertion order
  unique_index,   \* the emails table rejects a second row of one unipile_email_id
  webhook,        \* each webhook delivery: where its handler is, what it returned
  processing,     \* per unipile_email_id, how many times processing was started
  hour,           \* hours since the process started
  last_run,       \* per periodic maintenance job, the hour of its last run
  hits,           \* RateLimiter._hits: per (user_id, bucket), the recorded timestamps
  time,           \* time.time(), in seconds
  log             \* per (user_id, bucket), every check call so far: when, and its outcome

\* The variables of the other components, which the dispatch leaves alone.
side == <<tasks, created, emails, unique_index, webhook, processing, hour, last_run,
         hits, time, log>>

vars == <<side, store_fails, api, redis_up, now, started, USE_CELERY, content_items, account, chains, last_sweep,
          last_poll, poll, manual, posts_made, sched_count>>

\* ------------------------------------------------------------- the store
NoRow == [present |-> FALSE, status |-> "draft", scheduled_at |-> NoTime,
          published_at |-> NoTime, linkedin_post_id |-> NoPost, image_url |-> FALSE]

\* image_url is whether the row has one.
DraftRow == [present |-> TRUE, status |-> "draft", scheduled_at |-> NoTime,
             published_at |-> NoTime, linkedin_post_id |-> NoPost, image_url |-> FALSE]

\* db.table("content_items").update(fields).eq("id", id): no row, no effect.
UpdateRow(rows, id, fields) ==
  IF rows[id].present
    THEN [rows EXCEPT ![id] = [f \in DOMAIN rows[id] |->
                                 IF f \in DOMAIN fields THEN fields[f] ELSE rows[id][f]]]
    ELSE rows

\* .update({"status": "publishing"}).eq("id", id).eq("status", "scheduled")
ClaimRow(rows, id) ==
  IF rows[id].present /\ rows[id].status = "scheduled"
    THEN UpdateRow(rows, id, [status |-> "publishing"])
    ELSE rows

\* MarkPublished with the post id left out of the update.
MarkPublished_without_post_id(rows, id, post, t) ==
  UpdateRow(rows, id, [status |-> "published", published_at |-> t])

MarkPublished(rows, id, post, t) ==
  UpdateRow(rows, id, [status |-> "published", published_at |-> t,
                       linkedin_post_id |-> post])

MarkFailed(rows, id) == UpdateRow(rows, id, [status |-> "failed"])

\* A content API request as its handler holds it after the status check.
NoRequest == [op |-> "none", status |-> "draft", scheduled_at |-> NoTime]

\* The requests whose two steps the model takes apart: a PATCH back to draft,
\* a DELETE, an image upload, an image removal and a schedule for time 0.
ApiRequests ==
  {[op |-> "update_content", status |-> "draft", scheduled_at |-> NoTime],
   [op |-> "delete_content", status |-> "draft", scheduled_at |-> NoTime],
   [op |-> "upload_image", status |-> "draft", scheduled_at |-> NoTime],
   [op |-> "remove_image", status |-> "draft", scheduled_at |-> NoTime],
   [op |-> "schedule_content", status |-> "scheduled", scheduled_at |-> 0]}

\* ------------------------------------------------------------ the queue
\* One retry chain of publish_post_task: the message (state "queued", with the
\* request's retries and eta) or its execution awaiting the Publisher
\* ("calling"), and what the chain did so far.
\* retries is the request's retries, which is also the number of failed
\* attempts so far; calls is the number of Publisher calls the chain made and
\* errors the number of those that raised.  image is the image_url kwarg of the
\* message (whether it has one), attached whether the running attempt put the
\* downloaded image into the form.
IdleChain == [state |-> "unused", post |-> 1, retries |-> 0, eta |-> 0,
              calls |-> 0, errors |-> 0, image |-> FALSE, attached |-> FALSE]

FreeChains == {c \in Chains : chains[c].state = "unused"}

Min(S) == CHOOSE x \in S : \A y \in S : x <= y

Max0(a) == IF a > 0 THEN a ELSE 0

\* publish_post_task.apply_async(args=[id, ...], countdown=delay,
\* task_id="publish-<id>"): one more message on the broker.  Celery does not
\* look at task_id when it publishes a message, so a second apply_async with
\* the same task_id is a second message.  Both callers pass the image_url they
\* selected from the row.
ApplyAsync(q, c, id, delay) ==
  [q EXCEPT ![c] = [IdleChain EXCEPT !.state = "queued", !.post = id,
                                     !.eta = now + delay,
                                     !.image = content_items[id].image_url]]

\* RetryCountdown growing linearly instead of doubling.
RetryCountdown_linear(retries) == backoff_base * (retries + 1)

\* countdown=60 * (2 ** self.request.retries)
RetryCountdown(retries) == backoff_base * (2 ^ retries)

TypeOK ==
  /\ now \in 0..(MaxTime + TimeStep)
  /\ redis_up \in BOOLEAN
  /\ started \in BOOLEAN
  /\ USE_CELERY \in BOOLEAN
  /\ account \in BOOLEAN
  /\ \A i \in Items :
       /\ content_items[i].status \in ContentStatus
       /\ content_items[i].present \in BOOLEAN
  /\ \A c \in Chains :
       chains[c].state \in {"unused", "queued", "calling", "published", "failed"}

\* The other components at process start.
InitSide ==
  /\ tasks = [u \in Users |-> <<>>]
  /\ created = [u \in Users |-> 0]
  /\ emails = <<>>
  /\ webhook = [d \in Deliveries |-> IdleDelivery]
  /\ processing = [e \in EmailIds |-> 0]
  /\ hour = 0
  /\ last_run = [j \in MaintenanceJobs |-> 0]
  /\ hits = [key \in LimiterKeys |-> <<>>]
  /\ time = 0
  /\ log = [key \in LimiterKeys |-> <<>>]

Init ==
  /\ InitSide
  /\ unique_index = FALSE
  /\ now = 0
  /\ store_fails = FALSE
  /\ api = [i \in Items |-> NoRequest]
  /\ redis_up \in BOOLEAN
  /\ started = FALSE
  /\ USE_CELERY = FALSE
  /\ content_items = [i \in Items |-> IF i \in InitialItems THEN DraftRow ELSE NoRow]
  /\ account \in BOOLEAN
  /\ chains = [c \in Chains |-> IdleChain]
  /\ last_sweep = NoTime
  /\ last_poll = NoTime
  /\ poll = [pc |-> "idle", posts |-> <<>>]
  /\ manual = [i \in Items |-> FALSE]
  /\ posts_made = [i \in Items |-> 0]
  /\ sched_count = [i \in Items |-> 0]

\* ------------------------------------------------------------- scheduler
\* The broker goes away, and comes back.
redis_outage ==
  /\ redis_up
  /\ redis_up' = FALSE
  /\ UNCHANGED <<side, store_fails, api, now, started, USE_CELERY, content_items, account, chains, last_sweep,
                 last_poll, poll, manual, posts_made, sched_count>>

redis_restored ==
  /\ ~redis_up
  /\ redis_up' = TRUE
  /\ UNCHANGED <<side, store_fails, api, now, started, USE_CELERY, content_items, account, chains, last_sweep,
                 last_poll, poll, manual, posts_made, sched_count>>

\* start_scheduler: _init_mode() sets _USE_CELERY from the Redis probe; without
\* Redis the APScheduler jobs are added, the poller first due one interval on.
start_scheduler ==
  /\ ~started
  /\ USE_CELERY' = redis_up
  /\ started' = TRUE
  /\ last_poll' = now
  /\ UNCHANGED <<side, store_fails, api, redis_up, now, content_items, account, chains, last_sweep, poll,
                 manual, posts_made, sched_count>>

Tick ==
  /\ started
  /\ now < MaxTime
  /\ now' = now + TimeStep
  /\ UNCHANGED <<side, store_fails, api, redis_up, started, USE_CELERY, content_items, account, chains, last_sweep,
                 last_poll, poll, manual, posts_made, sched_count>>

\* handle_auth_callback: the user's unipile_account_id is stored.
handle_auth_callback ==
  /\ started
  /\ ~account
  /\ account' = TRUE
  /\ UNCHANGED <<side, store_fails, api, redis_up, now, started, USE_CELERY, content_items, chains, last_sweep,
                 last_poll, poll, manual, posts_made, sched_count>>

\* ------------------------------------------------------- publish_post_task
\* HandleFailure comparing with > instead of >=.
HandleFailure_one_more(rows, q, c) ==
  IF q[c].retries > max_retries
    THEN <<MarkFailed(rows, q[c].post),
           [q EXCEPT ![c].state = "failed", ![c].eta = 0]>>
    ELSE <<rows,
           [q EXCEPT ![c].state = "queued", ![c].retries = @ + 1,
                     ![c].eta = now + RetryCountdown(q[c].retries)]>>

\* The except branch: status failed once the request's retries reached
\* max_retries, else self.retry with the exponential countdown.
HandleFailure(rows, q, c) ==
  IF q[c].retries >= max_retries
    THEN <<MarkFailed(rows, q[c].post),
           [q EXCEPT ![c].state = "failed", ![c].eta = 0]>>
    ELSE <<rows,
           [q EXCEPT ![c].state = "queued", ![c].retries = @ + 1,
                     ![c].eta = now + RetryCountdown(q[c].retries)]>>

\* ImageOutcome without the try/except around the download.
ImageOutcome_raises(image, fetched) ==
  IF ~image THEN "text_only" ELSE IF fetched THEN "attached" ELSE "raise"

\* _publish_via_unipile before the POST: an image_url is downloaded and
\* attached; a failed download is logged and the post goes out without it.
ImageOutcome(image, fetched) ==
  IF image /\ fetched THEN "attached" ELSE "text_only"

\* A worker takes a message whose eta has passed.  First attempt: the filtered
\* update scheduled -> publishing, whose result is not read.  Then the account
\* lookup; without an account the ValueError goes to the except branch, with
\* one the image is resolved and the Publisher is called.  Whatever
\* _publish_via_unipile raises goes to the except branch.
publish_post_task_start(c) ==
  /\ started /\ USE_CELERY /\ redis_up
  /\ chains[c].state = "queued"
  /\ chains[c].eta <= now
  /\ \E fetched \in (IF chains[c].image /\ account THEN BOOLEAN ELSE {FALSE}) :
       LET claimed == IF chains[c].retries = 0
                        THEN ClaimRow(content_items, chains[c].post)
                        ELSE content_items
           outcome == ImageOutcome(chains[c].image, fetched)
       IN IF account /\ outcome # "raise"
            THEN /\ content_items' = claimed
                 /\ chains' = [chains EXCEPT ![c].state = "calling", ![c].calls = @ + 1,
                                             ![c].attached = (outcome = "attached")]
            ELSE LET r == HandleFailure(claimed, chains, c)
                 IN /\ content_items' = r[1]
                    /\ chains' = r[2]
  /\ UNCHANGED <<side, store_fails, api, redis_up, now, started, USE_CELERY, account, last_sweep, last_poll, poll,
                 manual, posts_made, sched_count>>

\* _publish_via_unipile returned a post id: status published, by id alone.
publish_post_task_success(c) ==
  /\ chains[c].state = "calling"
  /\ posts_made[chains[c].post] < MaxPosts
  /\ posts_made' = [posts_made EXCEPT ![chains[c].post] = @ + 1]
  /\ content_items' = MarkPublished(content_items, chains[c].post,
                                    posts_made'[chains[c].post], now)
  /\ chains' = [chains EXCEPT ![c].state = "published", ![c].eta = 0]
  /\ UNCHANGED <<side, store_fails, api, redis_up, now, started, USE_CELERY, account, last_sweep, last_poll, poll,
                 manual, sched_count>>

\* _publish_via_unipile raised.
publish_post_task_error(c) ==
  /\ chains[c].state = "calling"
  /\ LET r == HandleFailure(content_items,
                            [chains EXCEPT ![c].errors = @ + 1, ![c].attached = FALSE], c)
     IN /\ content_items' = r[1]
        /\ chains' = r[2]
  /\ UNCHANGED <<side, store_fails, api, redis_up, now, started, USE_CELERY, account, last_sweep, last_poll, poll,
                 manual, posts_made, sched_count>>

\* ------------------------------------------------------- enqueue_due_posts
\* DueInWindow without the lookahead: only rows already due.
DueInWindow_no_lookahead(rows, t) ==
  {i \in Items : /\ rows[i].present
                 /\ rows[i].status = "scheduled"
                 /\ rows[i].scheduled_at # NoTime
                 /\ rows[i].scheduled_at <= t}

\* The rows the sweep selects: status scheduled, scheduled_at within the window.
DueInWindow(rows, t) ==
  {i \in Items : /\ rows[i].present
                 /\ rows[i].status = "scheduled"
                 /\ rows[i].scheduled_at # NoTime
                 /\ rows[i].scheduled_at <= t + SweepWindow}

\* The k-th smallest member of a set of numbers.
RECURSIVE Nth(_, _)
Nth(S, k) == IF k = 1 THEN Min(S) ELSE Nth(S \ {Min(S)}, k - 1)

Rank(S, x) == Cardinality({y \in S : y <= x})

\* One message per selected row, countdown max(0, scheduled_at - now).
EnqueueAll(q, due) ==
  [c \in Chains |->
     IF c \in FreeChains /\ Rank(FreeChains, c) <= Cardinality(due)
       THEN LET i == Nth(due, Rank(FreeChains, c))
                delay == Max0(content_items[i].scheduled_at - now)
            IN ApplyAsync(q, c, i, delay)[c]
       ELSE q[c]]

enqueue_due_posts ==
  /\ started /\ USE_CELERY /\ redis_up
  /\ last_sweep = NoTime \/ now >= last_sweep + SweepInterval
  /\ LET due == DueInWindow(content_items, now)
     IN /\ Cardinality(due) <= Cardinality(FreeChains)
        /\ chains' = EnqueueAll(chains, due)
  /\ last_sweep' = now
  /\ UNCHANGED <<side, store_fails, api, redis_up, now, started, USE_CELERY, content_items, account, last_poll, poll,
                 manual, posts_made, sched_count>>

\* -------------------------------------------- _fire_scheduled_posts_legacy
DueNow(rows, t) ==
  {i \in Items : /\ rows[i].present
                 /\ rows[i].status = "scheduled"
                 /\ rows[i].scheduled_at # NoTime
                 /\ rows[i].scheduled_at <= t}

SeqOf(S) == [k \in 1..Cardinality(S) |-> Nth(S, k)]

Range(f) == {f[k] : k \in DOMAIN f}

\* The loop up to its next await: publish_post raises at once for every post
\* while the account is missing (status failed), else it calls the Publisher
\* for the first post left.
PollAdvance(rows, posts) ==
  IF posts = <<>>
    THEN <<rows, [pc |-> "idle", posts |-> <<>>]>>
    ELSE IF account
      THEN <<rows, [pc |-> "calling", posts |-> posts]>>
      ELSE <<[i \in Items |-> IF i \in Range(posts) THEN MarkFailed(rows, i)[i]
                                                    ELSE rows[i]],
             [pc |-> "idle", posts |-> <<>>]>>

\* What a store call may do: succeed, or raise when the store is failing.
StoreOutcomes == IF store_fails THEN BOOLEAN ELSE {TRUE}

\* The loop after the current post: on to the next post, or, when the update
\* in the except branch raised, out of the job with the rest undone.
PollNext(rows, handled) ==
  IF handled THEN PollAdvance(rows, Tail(poll.posts))
             ELSE <<content_items, [pc |-> "idle", posts |-> <<>>]>>

\* The interval job, one instance at a time: select the due rows, start on
\* them; a select that raises ends the job.
fire_scheduled_posts_legacy ==
  /\ started /\ ~USE_CELERY
  /\ poll.pc = "idle"
  /\ now >= last_poll + PollInterval
  /\ last_poll' = now
  /\ \E selected \in StoreOutcomes :
       LET r == IF selected
                  THEN PollAdvance(content_items, SeqOf(DueNow(content_items, now)))
                  ELSE <<content_items, poll>>
       IN /\ content_items' = r[1]
          /\ poll' = r[2]
  /\ UNCHANGED <<side, store_fails, api, redis_up, now, started, USE_CELERY, account, chains,
                 last_sweep, manual, posts_made, sched_count>>

\* publish_post returned a post id for the current post: status published; if
\* that update raises, the except branch writes status failed; if that raises
\* too, the exception leaves the loop.
fire_legacy_success ==
  /\ poll.pc = "calling"
  /\ posts_made[Head(poll.posts)] < MaxPosts
  /\ posts_made' = [posts_made EXCEPT ![Head(poll.posts)] = @ + 1]
  /\ \E written \in StoreOutcomes, marked \in StoreOutcomes :
       LET i == Head(poll.posts)
           r == IF written
                  THEN PollNext(MarkPublished(content_items, i, posts_made'[i], now), TRUE)
                  ELSE PollNext(MarkFailed(content_items, i), marked)
       IN /\ content_items' = r[1]
          /\ poll' = r[2]
  /\ UNCHANGED <<side, store_fails, api, redis_up, now, started, USE_CELERY, account, chains,
                 last_sweep, last_poll, manual, sched_count>>

\* publish_post raised for the current post: status failed; if that update
\* raises, the exception leaves the loop.
fire_legacy_error ==
  /\ poll.pc = "calling"
  /\ \E marked \in StoreOutcomes :
       LET r == PollNext(MarkFailed(content_items, Head(poll.posts)), marked)
       IN /\ content_items' = r[1]
          /\ poll' = r[2]
  /\ UNCHANGED <<side, store_fails, api, redis_up, now, started, USE_CELERY, account, chains,
                 last_sweep, last_poll, manual, posts_made, sched_count>>

\* ------------------------------------------------------------ content API
\* The post generator saves its draft: a new row in status draft.
generate_post(i) ==
  /\ started
  /\ ~content_items[i].present
  /\ content_items' = [content_items EXCEPT ![i] = DraftRow]
  /\ UNCHANGED <<side, store_fails, api, redis_up, now, started, USE_CELERY, account, chains,
                 last_sweep, last_poll, poll, manual, posts_made, sched_count>>

\* PATCH /api/content/{id}: refused for a published row; a scheduled_at in the
\* payload forces status scheduled.
NoStatus == "none"

\* The statuses the model's PATCH requests carry.
UpdateStatuses == {"draft", "scheduled", "published"}

update_content(i, status, scheduled_at) ==
  /\ started
  /\ content_items[i].present
  /\ content_items[i].status # "published"
  /\ LET st == IF scheduled_at # NoTime THEN "scheduled"
               ELSE IF status # NoStatus THEN status
               ELSE content_items[i].status
         at == IF scheduled_at # NoTime THEN scheduled_at
               ELSE content_items[i].scheduled_at
     IN /\ st = "scheduled" => sched_count[i] < MaxSchedules
        /\ content_items' = UpdateRow(content_items, i,
                                      [status |-> st, scheduled_at |-> at])
        /\ sched_count' = IF st = "scheduled"
                            THEN [sched_count EXCEPT ![i] = @ + 1]
                            ELSE sched_count
  /\ UNCHANGED <<side, store_fails, api, redis_up, now, started, USE_CELERY, account, chains, last_sweep, last_poll,
                 poll, manual, posts_made>>

\* DELETE /api/content/{id}: refused for a published row.
delete_content(i) ==
  /\ started
  /\ content_items[i].present
  /\ content_items[i].status # "published"
  /\ content_items' = [content_items EXCEPT ![i] = NoRow]
  /\ UNCHANGED <<side, store_fails, api, redis_up, now, started, USE_CELERY, account, chains, last_sweep, last_poll,
                 poll, manual, posts_made, sched_count>>

\* POST /api/content/{id}/image: refused for a published row; the file goes to
\* storage (a failed upload is a 500 and no write) and the row gets its url.
upload_image(i) ==
  /\ started
  /\ content_items[i].present
  /\ content_items[i].status # "published"
  /\ \E uploaded \in BOOLEAN :
       content_items' = IF uploaded
                          THEN UpdateRow(content_items, i, [image_url |-> TRUE])
                          ELSE content_items
  /\ UNCHANGED <<side, store_fails, api, redis_up, now, started, USE_CELERY, account, chains, last_sweep, last_poll,
                 poll, manual, posts_made, sched_count>>

\* DueSoon with < in place of <=.
DueSoon_strict(delay) == delay < ImmediateHorizon

\* if delay <= 300: due within 5 minutes
DueSoon(delay) == delay <= ImmediateHorizon

\* schedule_content with the enqueue ahead of the store update and outside a
\* try: a failed enqueue ends the request before anything is written.
schedule_content_enqueue_first(i, scheduled_at) ==
  /\ started
  /\ content_items[i].present
  /\ content_items[i].status # "published"
  /\ sched_count[i] < MaxSchedules
  /\ sched_count' = [sched_count EXCEPT ![i] = @ + 1]
  /\ LET delay == Max0(scheduled_at - now)
     IN IF USE_CELERY /\ DueSoon(delay)
          THEN IF redis_up
                 THEN /\ FreeChains # {}
                      /\ chains' = ApplyAsync(chains, Min(FreeChains), i, delay)
                      /\ content_items' = UpdateRow(content_items, i,
                            [status |-> "scheduled", scheduled_at |-> scheduled_at])
                 ELSE /\ chains' = chains
                      /\ content_items' = content_items
          ELSE /\ chains' = chains
               /\ content_items' = UpdateRow(content_items, i,
                     [status |-> "scheduled", scheduled_at |-> scheduled_at])
  /\ UNCHANGED <<side, store_fails, api, redis_up, now, started, USE_CELERY, account, last_sweep, last_poll,
                 poll, manual, posts_made>>

\* POST /api/content/{id}/schedule: status scheduled, then, with Celery and a
\* target within five minutes, the publish task is enqueued at once; whatever
\* the enqueue raises (the broker is away) is swallowed.
schedule_content(i, scheduled_at) ==
  /\ started
  /\ content_items[i].present
  /\ content_items[i].status # "published"
  /\ sched_count[i] < MaxSchedules
  /\ content_items' = UpdateRow(content_items, i,
                                [status |-> "scheduled", scheduled_at |-> scheduled_at])
  /\ sched_count' = [sched_count EXCEPT ![i] = @ + 1]
  /\ LET delay == Max0(scheduled_at - now)
     IN IF USE_CELERY /\ DueSoon(delay)
          THEN IF redis_up
                 THEN /\ FreeChains # {}
                      /\ chains' = ApplyAsync(chains, Min(FreeChains), i, delay)
                 ELSE chains' = chains
          ELSE chains' = chains
  /\ UNCHANGED <<side, store_fails, api, redis_up, now, started, USE_CELERY, account, last_sweep, last_poll,
                 poll, manual, posts_made>>

\* The handlers above take their select and their update as one step.  The
\* API process and the Celery workers are separate processes on one store,
\* and upload_image awaits the file between the two, so another write can
\* fall in between: the next two actions are the two halves of a handler.
\* The first half: the row is selected and the request refused unless the row
\* exists and is not published.
content_api_select(i, r) ==
  /\ started
  /\ api[i] = NoRequest
  /\ content_items[i].present
  /\ content_items[i].status # "published"
  /\ r.op = "schedule_content" => sched_count[i] < MaxSchedules
  /\ api' = [api EXCEPT ![i] = r]
  /\ UNCHANGED <<side, store_fails, redis_up, now, started, USE_CELERY, content_items, account, chains,
                 last_sweep, last_poll, poll, manual, posts_made, sched_count>>

\* The second half: the update or delete, filtered on the id alone.
content_api_write(i) ==
  /\ api[i] # NoRequest
  /\ api' = [api EXCEPT ![i] = NoRequest]
  /\ content_items' =
       CASE api[i].op = "update_content" ->
              UpdateRow(content_items, i, [status |-> api[i].status])
         [] api[i].op = "delete_content" -> [content_items EXCEPT ![i] = NoRow]
         [] api[i].op = "upload_image" -> UpdateRow(content_items, i, [image_url |-> TRUE])
         [] api[i].op = "remove_image" -> UpdateRow(content_items, i, [image_url |-> FALSE])
         [] api[i].op = "schedule_content" ->
              UpdateRow(content_items, i, [status |-> "scheduled",
                                           scheduled_at |-> api[i].scheduled_at])
  /\ sched_count' = IF api[i].op = "schedule_content"
                      THEN [sched_count EXCEPT ![i] = @ + 1]
                      ELSE sched_count
  /\ LET delay == Max0(api[i].scheduled_at - now)
     IN IF api[i].op = "schedule_content" /\ USE_CELERY /\ DueSoon(delay) /\ redis_up
          THEN /\ FreeChains # {}
               /\ chains' = ApplyAsync(chains, Min(FreeChains), i, delay)
          ELSE chains' = chains
  /\ UNCHANGED <<side, store_fails, redis_up, now, started, USE_CELERY, account, last_sweep, last_poll,
                 poll, manual, posts_made>>

\* GET /api/scheduler/health reading _USE_CELERY afresh from a probe.
scheduler_health_reprobes ==
  /\ started
  /\ USE_CELERY' = redis_up
  /\ UNCHANGED <<side, store_fails, api, redis_up, now, started, content_items, account, chains, last_sweep,
                 last_poll, poll, manual, posts_made, sched_count>>

\* GET /api/scheduler/health: reports the mode and pings the workers or looks
\* at the APScheduler jobs; writes nothing.
scheduler_health ==
  /\ started
  /\ UNCHANGED vars

\* GET /api/scheduler/queue-depth: reports the mode and, with Celery, the
\* queue lengths read from Redis; writes nothing.
queue_depth ==
  /\ started
  /\ UNCHANGED vars

\* POST /api/content/{id}/publish: refused for a published row; publish_post
\* raises before any call when the account is missing.
publish_content(i) ==
  /\ started
  /\ content_items[i].present
  /\ content_items[i].status # "published"
  /\ ~manual[i]
  /\ IF account
       THEN /\ manual' = [manual EXCEPT ![i] = TRUE]
            /\ content_items' = content_items
       ELSE /\ manual' = manual
            /\ content_items' = MarkFailed(content_items, i)
  /\ UNCHANGED <<side, store_fails, api, redis_up, now, started, USE_CELERY, account, chains, last_sweep, last_poll,
                 poll, posts_made, sched_count>>

publish_content_success(i) ==
  /\ manual[i]
  /\ posts_made[i] < MaxPosts
  /\ manual' = [manual EXCEPT ![i] = FALSE]
  /\ posts_made' = [posts_made EXCEPT ![i] = @ + 1]
  /\ content_items' = MarkPublished(content_items, i, posts_made'[i], now)
  /\ UNCHANGED <<side, store_fails, api, redis_up, now, started, USE_CELERY, account, chains, last_sweep, last_poll,
                 poll, sched_count>>

publish_content_error(i) ==
  /\ manual[i]
  /\ manual' = [manual EXCEPT ![i] = FALSE]
  /\ content_items' = MarkFailed(content_items, i)
  /\ UNCHANGED <<side, store_fails, api, redis_up, now, started, USE_CELERY, account, chains, last_sweep, last_poll,
                 poll, posts_made, sched_count>>

Next ==
  \/ start_scheduler
  \/ Tick
  \/ handle_auth_callback
  \/ \E c \in Chains : publish_post_task_start(c)
  \/ \E c \in Chains : publish_post_task_success(c)
  \/ \E c \in Chains : publish_post_task_error(c)
  \/ enqueue_due_posts
  \/ fire_scheduled_posts_legacy
  \/ fire_legacy_success
  \/ fire_legacy_error
  \/ \E i \in Items, st \in UpdateStatuses \cup {NoStatus}, t \in SchedTimes \cup {NoTime} :
       update_content(i, st, t)
  \/ \E i \in Items : delete_content(i)
  \/ \E i \in Items, t \in SchedTimes : schedule_content(i, t)
  \/ \E i \in Items : publish_content(i)
  \/ \E i \in Items : publish_content_success(i)
  \/ \E i \in Items : publish_content_error(i)

Spec == Init /\ [][Next]_vars

\* Distributed mode on its own: Celery beat and workers with the scheduling API.
NextCelery ==
  \/ start_scheduler
  \/ Tick
  \/ handle_auth_callback
  \/ \E c \in Chains : publish_post_task_start(c)
  \/ \E c \in Chains : publish_post_task_success(c)
  \/ \E c \in Chains : publish_post_task_error(c)
  \/ enqueue_due_posts
  \/ \E i \in Items, st \in UpdateStatuses \cup {NoStatus}, t \in SchedTimes \cup {NoTime} :
       update_content(i, st, t)
  \/ \E i \in Items : delete_content(i)
  \/ \E i \in Items, t \in SchedTimes : schedule_content(i, t)

SpecCelery == Init /\ [][NextCelery]_vars

\* Celery beat sends enqueue_due_posts every SweepInterval seconds: the sweep
\* is due from the start and again one interval after each run.
SweepDue ==
  /\ started /\ USE_CELERY /\ redis_up
  /\ last_sweep = NoTime \/ now >= last_sweep + SweepInterval

\* The clock under a beat that keeps its schedule: time does not pass a sweep
\* that is due.
BeatTick == ~SweepDue /\ Tick

\* Distributed mode with the beat on schedule.
NextBeat ==
  \/ start_scheduler
  \/ BeatTick
  \/ handle_auth_callback
  \/ \E c \in Chains : publish_post_task_start(c)
  \/ \E c \in Chains : publish_post_task_success(c)
  \/ \E c \in Chains : publish_post_task_error(c)
  \/ enqueue_due_posts
  \/ \E i \in Items, st \in UpdateStatuses \cup {NoStatus}, t \in SchedTimes \cup {NoTime} :
       update_content(i, st, t)
  \/ \E i \in Items : delete_content(i)
  \/ \E i \in Items, t \in SchedTimes : schedule_content(i, t)

SpecBeat == Init /\ [][NextBeat]_vars

\* Posts with images: a user, connected or not from the start, uploads images
\* and schedules; the dispatch of either mode publishes.
NextImage ==
  \/ start_scheduler
  \/ Tick
  \/ \E c \in Chains : publish_post_task_start(c)
  \/ \E c \in Chains : publish_post_task_success(c)
  \/ \E c \in Chains : publish_post_task_error(c)
  \/ enqueue_due_posts
  \/ fire_scheduled_posts_legacy
  \/ fire_legacy_success
  \/ fire_legacy_error
  \/ \E i \in Items : upload_image(i)
  \/ \E i \in Items, t \in SchedTimes : schedule_content(i, t)

SpecImage == Init /\ [][NextImage]_vars

\* The API and the beat through broker outages; the workers stay out of it.
NextOutage ==
  \/ start_scheduler
  \/ Tick
  \/ redis_outage
  \/ redis_restored
  \/ enqueue_due_posts
  \/ \E i \in Items, t \in SchedTimes : schedule_content(i, t)
  \/ scheduler_health
  \/ queue_depth

SpecOutage == Init /\ [][NextOutage]_vars

\* The content API handlers in two steps each, beside the Celery workers.
NextRace ==
  \/ start_scheduler
  \/ Tick
  \/ \E c \in Chains : publish_post_task_start(c)
  \/ \E c \in Chains : publish_post_task_success(c)
  \/ \E c \in Chains : publish_post_task_error(c)
  \/ \E i \in Items, r \in ApiRequests : content_api_select(i, r)
  \/ \E i \in Items : content_api_write(i)

SpecRace == Init /\ [][NextRace]_vars

\* Fallback mode with a connected account, two posts and a store that may
\* fail: drafts are generated and scheduled, the poller publishes.
InitPoll ==
  /\ InitSide
  /\ unique_index = FALSE
  /\ now = 0
  /\ store_fails \in BOOLEAN
  /\ api = [i \in Items |-> NoRequest]
  /\ redis_up = FALSE
  /\ started = FALSE
  /\ USE_CELERY = FALSE
  /\ content_items = [i \in Items |-> IF i \in InitialItems THEN DraftRow ELSE NoRow]
  /\ account = TRUE
  /\ chains = [c \in Chains |-> IdleChain]
  /\ last_sweep = NoTime
  /\ last_poll = NoTime
  /\ poll = [pc |-> "idle", posts |-> <<>>]
  /\ manual = [i \in Items |-> FALSE]
  /\ posts_made = [i \in Items |-> 0]
  /\ sched_count = [i \in Items |-> 0]

NextPoll ==
  \/ start_scheduler
  \/ Tick
  \/ \E i \in Items : generate_post(i)
  \/ \E i \in Items, t \in SchedTimes : schedule_content(i, t)
  \/ fire_scheduled_posts_legacy
  \/ fire_legacy_success
  \/ fire_legacy_error

SpecPoll == InitPoll /\ [][NextPoll]_vars

\* ------------------------------------------------------------------ claims
\* Executions between their start and their final store update, per item.
InFlight(i) ==
  Cardinality({c \in Chains : chains[c].state = "calling" /\ chains[c].post = i})
    + (IF manual[i] THEN 1 ELSE 0)
    + (IF poll.pc = "calling" /\ Head(poll.posts) = i THEN 1 ELSE 0)

\* Chain c takes a step as a first attempt of publish_post_task.
FirstAttempt(c) ==
  /\ chains[c].state = "queued"
  /\ chains[c].retries = 0
  /\ chains'[c] # chains[c]

\* C1: an item that was scheduled is published by the Publisher at most once
\* for each time it was scheduled, whatever path dispatches it.
C1_NoDuplicatePublish ==
  \A i \in Items : sched_count[i] > 0 => posts_made[i] <= sched_count[i]

\* C2: at most one dispatch execution (task run, poller iteration or manual
\* publish) is in flight per item at any time.
C2_OneInFlight == \A i \in Items : InFlight(i) <= 1

\* C3: of two simultaneous first attempts on one scheduled item, the one whose
\* conditional update affects no row (the other has claimed the item and is
\* calling the Publisher) makes no Publisher call and writes nothing.
C3_LoserAborts ==
  [][\A c \in Chains :
       (/\ FirstAttempt(c)
        /\ content_items[chains[c].post].present
        /\ content_items[chains[c].post].status = "publishing"
        /\ \E d \in Chains \ {c} : /\ chains[d].state = "calling"
                                    /\ chains[d].retries = 0
                                    /\ chains[d].post = chains[c].post)
       => (/\ chains'[c].calls = 0
           /\ chains'[c].state # "queued"
           /\ content_items' = content_items)]_vars

\* C4: a first attempt that starts after the API made the scheduled item a
\* draft, or deleted it, calls no Publisher and leaves the item as it is.
C4_CancelledIsNoOp ==
  [][\A c \in Chains :
       (/\ FirstAttempt(c)
        /\ \/ ~content_items[chains[c].post].present
           \/ content_items[chains[c].post].status = "draft"
        /\ \A d \in Chains \ {c} :
             chains[d].state = "unused" \/ (chains[d].state = "queued" /\ chains[d].retries = 0)
        /\ posts_made[chains[c].post] = 0)
       => (/\ chains'[c].calls = 0
           /\ content_items' = content_items)]_vars

\* C5: no step of publish_post_task or of the fallback poller changes a row
\* that the Publisher's post id marks as published.
C5_PublishedNotTransitioned ==
  [][\A i \in Items :
       (/\ content_items[i].present
        /\ content_items[i].status = "published"
        /\ content_items[i].linkedin_post_id # NoPost
        /\ (chains' # chains \/ poll' # poll))
       => content_items'[i] = content_items[i]]_vars

\* C6: no step takes an item from status publishing back to scheduled or to
\* draft.
C6_ClaimedNotReverted ==
  [][\A i \in Items :
       (content_items[i].present /\ content_items[i].status = "publishing")
       => ~(content_items'[i].present
            /\ content_items'[i].status \in {"scheduled", "draft"})]_vars

\* C7: an attempt of publish_post_task that finds no connected account ends
\* the chain at once: no retry is queued and the item is failed.
C7_NoAccountIsTerminal ==
  [][\A c \in Chains :
       (chains[c].state = "queued" /\ chains'[c] # chains[c] /\ ~account)
       => (/\ chains'[c].state = "failed"
           /\ content_items[chains[c].post].present
                 => content_items'[chains[c].post].status = "failed")]_vars

\* C8 as first stated: no chain makes a 4th Publisher call.
C8_NoFourthCall == \A c \in Chains : chains[c].calls <= max_retries

\* C8: a chain makes at most max_retries + 1 = 4 Publisher calls; it is retried
\* only while the request's retries are below max_retries, it fails for good
\* exactly on the attempt with retries = max_retries (the 4th failure), which
\* writes status failed, and a finished chain takes no further step.
C8_RetryBound ==
  [][\A c \in Chains :
       /\ chains'[c].calls <= max_retries + 1
       /\ chains'[c].retries <= max_retries
       /\ chains'[c].retries > chains[c].retries => chains[c].retries < max_retries
       /\ (chains[c].state \in {"queued", "calling"} /\ chains'[c].state = "failed")
            => /\ chains[c].retries = max_retries
               /\ content_items[chains[c].post].present
                     => content_items'[chains[c].post].status = "failed"
       /\ chains[c].state \in {"published", "failed"} => chains'[c] = chains[c]]_vars

C8_Witness ==
  \E c \in Chains : /\ chains[c].state = "failed"
                     /\ chains[c].calls = 4
                     /\ chains[c].errors = 4
                     /\ content_items[chains[c].post].status = "failed"

\* The delays the task's docstring gives for failed attempts 0, 1 and 2.
Backoff(n) == CASE n = 0 -> 60 [] n = 1 -> 120 [] n = 2 -> 240

\* C9: the retry after failed attempt n is queued for 60 * 2^n seconds after
\* the failure (60, 120, 240), and no attempt starts before its eta.
C9_BackoffDelays ==
  [][\A c \in Chains :
       /\ chains'[c].retries > chains[c].retries
            => /\ chains[c].retries \in {0, 1, 2}
               /\ chains'[c].retries = chains[c].retries + 1
               /\ chains'[c].state = "queued"
               /\ chains'[c].eta = now + Backoff(chains[c].retries)
       /\ (chains[c].state = "queued" /\ chains'[c] # chains[c])
            => chains[c].eta <= now]_vars

C9_Witness ==
  \E c \in Chains : /\ chains[c].state = "calling"
                     /\ chains[c].retries = 3
                     /\ chains[c].errors = 3

\* C10: when an attempt succeeds after k Publisher errors, the chain has made
\* k + 1 Publisher calls and the row is published with its post id and
\* published_at set.
C10_SuccessAfterErrors ==
  [][\A c \in Chains :
       (chains[c].state = "calling" /\ chains'[c].state = "published")
       => /\ chains'[c].calls = chains'[c].errors + 1
          /\ content_items[chains[c].post].present
                => /\ content_items'[chains[c].post].status = "published"
                   /\ content_items'[chains[c].post].linkedin_post_id # NoPost
                   /\ content_items'[chains[c].post].published_at = now]_vars

C10_Witness ==
  \E c \in Chains : /\ chains[c].state = "published"
                     /\ chains[c].errors = 2
                     /\ chains[c].calls = 3
                     /\ content_items[chains[c].post].status = "published"
                     /\ content_items[chains[c].post].linkedin_post_id # NoPost
                     /\ content_items[chains[c].post].published_at # NoTime

\* Chain c is a message waiting for its retry: an attempt failed under the
\* retry budget and the next one has not started.
AwaitingRetry(c) == chains[c].state = "queued" /\ chains[c].retries > 0

\* C11: between a failed attempt under the retry budget and its retry, no run
\* of enqueue_due_posts selects the item and enqueues a new task for it.
C11_NoEnqueueWhileRetryPending ==
  [][\A i \in Items :
       (/\ last_sweep' # last_sweep
        /\ \E c \in Chains : AwaitingRetry(c) /\ chains[c].post = i)
       => \A d \in Chains :
            chains[d].state = "unused"
              => ~(chains'[d].state = "queued" /\ chains'[d].post = i)]_vars

\* The messages ever enqueued for item i.
ChainsOf(i) == {c \in Chains : chains[c].state # "unused" /\ chains[c].post = i}

\* C12 as first stated: with the beat on schedule, every item that is in status
\* scheduled with scheduled_at = T when the clock passes T was enqueued for T
\* by a sweep at or before T (a message with eta T exists for it).
C12_EveryItemSweptByT ==
  [][\A i \in Items :
       (/\ USE_CELERY
        /\ content_items[i].present
        /\ content_items[i].status = "scheduled"
        /\ content_items[i].scheduled_at # NoTime
        /\ now <= content_items[i].scheduled_at
        /\ content_items[i].scheduled_at < now')
       => \E c \in ChainsOf(i) : chains[c].eta = content_items[i].scheduled_at]_vars

\* C12: every run of enqueue_due_posts at time t enqueues one message, with
\* countdown max(0, T - t), for every item that is in status scheduled with
\* scheduled_at = T <= t + 180 at that run; and runs are at most 180 seconds
\* apart, so every T after a run lies in the window of a run at or before T.
C12_WindowCoverage ==
  [][last_sweep' # last_sweep =>
       /\ \A i \in Items :
            (/\ content_items[i].present
             /\ content_items[i].status = "scheduled"
             /\ content_items[i].scheduled_at # NoTime
             /\ content_items[i].scheduled_at <= now + 180)
            => \E d \in Chains :
                 /\ chains[d].state = "unused"
                 /\ chains'[d].state = "queued"
                 /\ chains'[d].post = i
                 /\ chains'[d].retries = 0
                 /\ chains'[d].eta = now + Max0(content_items[i].scheduled_at - now)
       /\ last_sweep # NoTime =>
            \A T \in (last_sweep + 1)..now : T <= last_sweep + 180]_vars

\* A sweep at or before T = 420 has enqueued the item, scheduled once, beside
\* the message of the immediate path.
C12_Witness ==
  \E i \in Items :
    /\ content_items[i].status = "scheduled"
    /\ content_items[i].scheduled_at = 420
    /\ sched_count[i] = 1
    /\ last_sweep # NoTime /\ last_sweep <= 420
    /\ Cardinality({c \in ChainsOf(i) : chains[c].state = "queued" /\ chains[c].eta = 420}) = 2

\* Chain c has been executed: a worker ran publish_post_task for its message.
Executed(c) == chains[c].state \in {"calling", "published", "failed"} \/ chains[c].retries > 0

\* C13: of the messages enqueued with task_id publish-<id> for an item that
\* was put on the schedule once (the second one enqueued while the row was
\* still scheduled, so before the first executed), only one is executed.
C13_OneExecutionPerKey ==
  \A i \in Items :
    sched_count[i] = 1 => Cardinality({c \in ChainsOf(i) : Executed(c)}) <= 1

\* C14: an attempt of publish_post_task whose message has an image_url calls
\* the Publisher whether or not the download worked, and the download failing
\* is no failed attempt; when the Publisher then succeeds without the image
\* the row is published and the chain has used no retry for it.  The fallback
\* poller resolves no image and publishes a row that has one as text.
C14_ImageFailureIsolated ==
  [][/\ \A c \in Chains :
          /\ (/\ chains[c].state = "queued" /\ chains'[c] # chains[c]
              /\ chains[c].image /\ account)
               => /\ chains'[c].state = "calling"
                  /\ chains'[c].retries = chains[c].retries
                  /\ chains'[c].errors = chains[c].errors
                  /\ content_items'[chains[c].post].status # "failed"
                       \/ content_items[chains[c].post].status = "failed"
          /\ (/\ chains[c].state = "calling" /\ chains'[c].state = "published"
              /\ chains[c].image /\ ~chains[c].attached)
               => /\ chains'[c].retries = chains[c].retries
                  /\ chains'[c].errors = chains[c].errors
                  /\ content_items[chains[c].post].present
                       => content_items'[chains[c].post].status = "published"
     /\ \A i \in Items :
          (/\ poll.pc = "calling" /\ Head(poll.posts) = i
           /\ posts_made'[i] # posts_made[i]
           /\ content_items[i].present /\ content_items[i].image_url)
            => content_items'[i].status = "published"]_vars

\* The first attempt could not download the image, the Publisher took the
\* text, and the row is published with no retry used.
C14_Witness ==
  \E c \in Chains :
    /\ chains[c].state = "published"
    /\ chains[c].image /\ ~chains[c].attached
    /\ chains[c].retries = 0 /\ chains[c].errors = 0 /\ chains[c].calls = 1
    /\ content_items[chains[c].post].status = "published"
    /\ content_items[chains[c].post].image_url

\* A schedule_content request for item i completes in this step.
ScheduleStep(i) == sched_count'[i] = sched_count[i] + 1

\* C15: when the immediate enqueue of schedule_content fails (distributed mode,
\* target within 300 seconds, broker away), the request still writes the row:
\* status scheduled with the requested scheduled_at, no message; every later
\* sweep from 180 seconds before the target on selects the row, and a sweep
\* enqueues a message for every row it selects.
C15_EnqueueBestEffort ==
  [][/\ \A i \in Items :
          (/\ ScheduleStep(i)
           /\ USE_CELERY /\ ~redis_up
           /\ Max0(content_items'[i].scheduled_at - now) <= 300)
          => /\ chains' = chains
             /\ content_items'[i].status = "scheduled"
             /\ content_items'[i].scheduled_at \in SchedTimes
             /\ \A t \in now..(MaxTime + TimeStep) :
                  content_items'[i].scheduled_at <= t + 180
                    => i \in DueInWindow(content_items', t)
     /\ last_sweep' # last_sweep =>
          \A i \in DueInWindow(content_items, now) :
            \E d \in Chains : /\ chains'[d] # chains[d]
                               /\ chains'[d].state = "queued"
                               /\ chains'[d].post = i]_vars

\* Distributed mode, the item scheduled once for a time already due, and no
\* message for it: the immediate enqueue failed and the row waits for a sweep.
C15_Witness ==
  \E i \in Items :
    /\ USE_CELERY
    /\ content_items[i].status = "scheduled"
    /\ content_items[i].scheduled_at = 0
    /\ sched_count[i] = 1
    /\ ChainsOf(i) = {}

\* C16 as first stated: a schedule_content request enqueues a message if and
\* only if the mode is distributed and delay = max(0, scheduled_at - now) <= 300.
C16_EnqueuesIffDueSoon ==
  [][\A i \in Items :
       ScheduleStep(i) =>
         ((chains' # chains)
            <=> (USE_CELERY /\ Max0(content_items'[i].scheduled_at - now) <= 300))]_vars

\* C16: a schedule_content request writes status scheduled and the requested
\* scheduled_at; it enqueues a message only in distributed mode with
\* delay = max(0, scheduled_at - now) <= 300, and then one message for the
\* item with eta now + delay; in distributed mode with delay <= 300 and the
\* broker up it does enqueue; otherwise the queue is left as it is.
C16_ImmediateEnqueueRule ==
  [][\A i \in Items :
       ScheduleStep(i) =>
         LET delay == Max0(content_items'[i].scheduled_at - now)
             new == {d \in Chains : chains'[d] # chains[d]}
         IN /\ content_items'[i].status = "scheduled"
            /\ content_items'[i].scheduled_at \in SchedTimes
            /\ new # {} =>
                 /\ USE_CELERY /\ delay <= 300
                 /\ Cardinality(new) = 1
                 /\ \A d \in new : /\ chains[d].state = "unused"
                                   /\ chains'[d].state = "queued"
                                   /\ chains'[d].post = i
                                   /\ chains'[d].retries = 0
                                   /\ chains'[d].eta = now + delay
            /\ (USE_CELERY /\ delay <= 300 /\ redis_up) => new # {}
            /\ (~USE_CELERY \/ delay > 300) => chains' = chains]_vars

\* The item was scheduled at 120 for 420, exactly 300 seconds ahead, and the
\* request enqueued its message before any sweep ran.
C16_Witness ==
  \E i \in Items, c \in Chains :
    /\ USE_CELERY
    /\ now = 120
    /\ last_sweep = NoTime
    /\ sched_count[i] = 1
    /\ content_items[i].status = "scheduled"
    /\ content_items[i].scheduled_at = 420
    /\ chains[c].state = "queued" /\ chains[c].post = i /\ chains[c].eta = 420

\* C17: in every reachable state a row has a linkedin_post_id if and only if
\* its status is published.
C17_PostIdIffPublished ==
  \A i \in Items :
    content_items[i].present
      => ((content_items[i].linkedin_post_id # NoPost)
            <=> (content_items[i].status = "published"))

\* C18: in every reachable state a row in status scheduled or publishing has
\* a scheduled_at.
C18_ScheduledHasTime ==
  \A i \in Items :
    (content_items[i].present /\ content_items[i].status \in {"scheduled", "publishing"})
      => content_items[i].scheduled_at # NoTime

\* C19: once the stored status is published, no step of a content API handler
\* changes the row or deletes it.
C19_PublishedImmutable ==
  [][\A i \in Items :
       (/\ content_items[i].present
        /\ content_items[i].status = "published"
        /\ content_items[i].linkedin_post_id # NoPost
        /\ api' # api)
       => content_items'[i] = content_items[i]]_vars

\* C20: start_scheduler sets the mode from the Redis probe (distributed iff
\* Redis answers), and no later step changes it: not a broker outage or its
\* end, not a schedule request, not a health or queue-depth request.
C20_ModeChosenOnce ==
  [][/\ (~started /\ started') => (USE_CELERY' = redis_up)
     /\ started => (started' /\ USE_CELERY' = USE_CELERY)]_vars

\* Distributed mode is kept through an outage during which an item was
\* scheduled.
C20_Witness ==
  /\ started /\ USE_CELERY /\ ~redis_up
  /\ \E i \in Items : sched_count[i] > 0 /\ ChainsOf(i) = {}

\* C21: within one run of the poller, an error on the current post (the
\* Publisher raising, or a store update for the post raising) leaves the rest
\* of the run's posts to be dispatched: the loop goes on to the next post.
C21_PollErrorIsolated ==
  [][(poll.pc = "calling" /\ poll' # poll /\ Tail(poll.posts) # <<>>)
       => (poll'.pc = "calling" /\ poll'.posts = Tail(poll.posts))]_vars

\* C22: in fallback mode a failed attempt made while the retry budget is not
\* used up leaves the item in publishing for a retry, so no step of the poller
\* takes a row that is still scheduled (no attempt failed since it was
\* scheduled) to failed.
C22_FallbackRetriesBeforeFailed ==
  [][\A i \in Items :
       ~(/\ poll.pc = "calling"
         /\ Head(poll.posts) = i
         /\ content_items[i].status = "scheduled"
         /\ content_items'[i].status = "failed")]_vars

\* A request of the user on item i is served in this step.
UserStep(i) ==
  \/ \E st \in UpdateStatuses \cup {NoStatus}, t \in SchedTimes \cup {NoTime} :
       update_content(i, st, t)
  \/ delete_content(i)
  \/ \E t \in SchedTimes : schedule_content(i, t)
  \/ publish_content(i)
  \/ publish_content_success(i)
  \/ publish_content_error(i)

\* The dispatch path calls the Publisher for item i in this step.
DispatchCalls(i) ==
  \/ \E c \in Chains : chains[c].post = i /\ chains'[c].post = i
                        /\ chains[c].state # "calling" /\ chains'[c].state = "calling"
  \/ poll' # poll /\ poll'.pc = "calling" /\ Head(poll'.posts) = i

\* C23: failed is terminal for the system: while an item's status is failed,
\* no step calls the Publisher for it on the dispatch path, and only a request
\* of the user on the item changes its row.
C23_FailedIsTerminal ==
  [][\A i \in Items :
       content_items[i].status = "failed"
       => /\ ~DispatchCalls(i)
          /\ (content_items'[i] # content_items[i] => UserStep(i))]_vars

\* ------------------------------------------------- workers that keep running
\* A message a worker can take now, or a task a worker is running.
WorkerBusy ==
  \E c \in Chains : \/ chains[c].state = "calling"
                    \/ chains[c].state = "queued" /\ chains[c].eta <= now

\* The clock under workers and a beat that keep up: time does not pass a due
\* sweep, a deliverable message or a running task.
WorkerTick == ~WorkerBusy /\ BeatTick

\* Distributed mode with the broker up throughout: the user creates drafts,
\* schedules them for time 0 at time 0 (every retry chain then ends within
\* MaxTime), and sends PATCH requests carrying status publishing.
InitLive == Init /\ redis_up

NextLive ==
  \/ start_scheduler
  \/ WorkerTick
  \/ \E c \in Chains : publish_post_task_start(c)
  \/ \E c \in Chains : publish_post_task_success(c)
  \/ \E c \in Chains : publish_post_task_error(c)
  \/ enqueue_due_posts
  \/ \E i \in Items : generate_post(i)
  \/ \E i \in Items : now = 0 /\ schedule_content(i, 0)
  \/ \E i \in Items : update_content(i, "publishing", NoTime)

\* Workers take every deliverable message, every Publisher call returns or
\* raises, the beat sends every due sweep, and time passes.
FairLive ==
  /\ WF_vars(start_scheduler)
  /\ WF_vars(WorkerTick)
  /\ WF_vars(enqueue_due_posts)
  /\ \A c \in Chains : WF_vars(publish_post_task_start(c))
  /\ \A c \in Chains : WF_vars(publish_post_task_success(c) \/ publish_post_task_error(c))

SpecLive == InitLive /\ [][NextLive]_vars /\ FairLive

\* C24: with workers running and messages delivered, every item whose status
\* becomes publishing later has status published or failed.
C24_PublishingResolves ==
  \A i \in Items :
    (content_items[i].status = "publishing")
      ~> (content_items[i].status \in {"published", "failed"})

\* ------------------------------------------------------------------ emails
\* The variables of the rate limiter.
limiter == <<hits, time, log>>

\* The variables of the dispatch, which the other components leave alone.
dispatch == <<store_fails, api, redis_up, now, started, USE_CELERY, content_items, account,
              chains, last_sweep, last_poll, poll, manual, posts_made, sched_count>>

Stored(e) == \E k \in 1..Len(emails) : emails[k].unipile_email_id = e

\* POST /webhooks/email up to the duplicate check: a delivery whose email is
\* already stored returns status duplicate.
email_webhook_select(d, e) ==
  /\ started
  /\ webhook[d].pc = "idle"
  /\ webhook' = [webhook EXCEPT ![d] =
                   IF Stored(e) THEN [pc |-> "done", email_id |-> e, status |-> "duplicate"]
                                ELSE [pc |-> "checked", email_id |-> e, status |-> ""]]
  /\ UNCHANGED <<dispatch, tasks, created, emails, unique_index, processing, hour, last_run, limiter>>

\* The rest of the handler: the insert, which raises when the table refuses a
\* second row of the id, then process_email_task.delay or, when that raises,
\* process_email inline, which may raise as well.
email_webhook_insert(d) ==
  /\ webhook[d].pc = "checked"
  /\ LET e == webhook[d].email_id
     IN IF unique_index /\ Stored(e)
          THEN /\ webhook' = [webhook EXCEPT ![d].pc = "done", ![d].status = "error"]
               /\ UNCHANGED <<emails, processing>>
          ELSE /\ \E x \in ExpiryHours :
                    emails' = Append(emails, [unipile_email_id |-> e, expires_at |-> hour + x])
               /\ \E begun \in BOOLEAN :
                    processing' = [processing EXCEPT ![e] = IF begun THEN @ + 1 ELSE @]
               /\ webhook' = [webhook EXCEPT ![d].pc = "done", ![d].status = "accepted"]
  /\ UNCHANGED <<dispatch, tasks, created, unique_index, hour, last_run, limiter>>

\* An hour passes.
hour_tick ==
  /\ started
  /\ hour < MaxHours
  /\ hour' = hour + 1
  /\ UNCHANGED <<dispatch, tasks, created, emails, unique_index, webhook, processing, last_run, limiter>>

\* purge_expired_emails and _purge_expired_emails_legacy: delete the rows
\* whose expires_at is before now.
Unexpired(rows, t) == SelectSeq(rows, LAMBDA r : ~(r.expires_at < t))

\* The scheduler of the mode runs a maintenance job it has registered, when the
\* job's interval has passed; only the email purge touches the emails table.
periodic_job(j) ==
  /\ started
  /\ j \in (IF USE_CELERY THEN beat_schedule ELSE apscheduler_jobs)
  /\ hour >= last_run[j] + EveryHours(j)
  /\ last_run' = [last_run EXCEPT ![j] = hour]
  /\ emails' = IF j = "purge_expired_emails" THEN Unexpired(emails, hour) ELSE emails
  /\ UNCHANGED <<dispatch, tasks, created, unique_index, webhook, processing, hour, limiter>>

\* Either mode with mail arriving: deliveries are handled one at a time.
NextPurge ==
  \/ start_scheduler
  \/ hour_tick
  \/ \E d \in Deliveries, e \in EmailIds :
       (\A o \in Deliveries : webhook[o].pc # "checked") /\ email_webhook_select(d, e)
  \/ \E d \in Deliveries : email_webhook_insert(d)
  \/ \E j \in MaintenanceJobs : periodic_job(j)

\* The clock runs and each scheduler runs the jobs it has registered.
FairPurge ==
  /\ WF_vars(start_scheduler)
  /\ WF_vars(hour_tick)
  /\ \A j \in MaintenanceJobs : WF_vars(periodic_job(j))

SpecPurge == Init /\ [][NextPurge]_vars /\ FairPurge

\* A stored email whose expires_at has passed.
Expired(e) ==
  \E k \in 1..Len(emails) : emails[k].unipile_email_id = e /\ emails[k].expires_at < hour

\* C25: in either mode, an email whose expires_at has passed (with an hour of
\* the modelled time still to come) is later deleted.
C25_ExpiredEmailPurged ==
  \A e \in EmailIds : (Expired(e) /\ hour < MaxHours) ~> ~Expired(e)

\* C26: the dispatch path calls the Publisher for an item only when the
\* scheduled_at the item's row holds at that moment has been reached.
C26_NeverBeforeScheduledAt ==
  [][\A i \in Items :
       (content_items[i].present /\ DispatchCalls(i))
       => content_items[i].scheduled_at <= now]_vars

\* ------------------------------------------------------------ task_manager
\* _prune keeping the oldest entries instead of the newest.
prune_keeps_oldest(list) ==
  IF Len(list) > MAX_TASKS_PER_USER THEN SubSeq(list, 1, MAX_TASKS_PER_USER) ELSE list

\* _prune: tasks[-_MAX_TASKS_PER_USER:] when the list is longer than the cap.
prune(list) ==
  IF Len(list) > MAX_TASKS_PER_USER
    THEN SubSeq(list, Len(list) - MAX_TASKS_PER_USER + 1, Len(list))
    ELSE list

\* The TaskInfo objects made so far, over all users.
TotalCreated == created["u1"] + created["u2"]

\* create_task: a new pending TaskInfo is appended to the user's list, the
\* list is pruned, and _wrapper is handed to the event loop.
create_task(u) ==
  /\ TotalCreated < MaxCreates
  /\ created' = [created EXCEPT ![u] = @ + 1]
  /\ tasks' = [tasks EXCEPT ![u] = prune(Append(@, [id |-> created'[u], status |-> "pending"]))]
  /\ UNCHANGED <<dispatch, emails, unique_index, webhook, processing, hour, last_run, limiter>>

\* Where the user's list holds the TaskInfo with that id: a set of positions,
\* empty once the entry was pruned.
PositionOf(u, id) == {k \in 1..Len(tasks[u]) : tasks[u][k].id = id}

\* _wrapper up to its await: status running.  The coroutines of each user's
\* first MaxTracked tasks make progress; the later ones are still waiting.
wrapper_start(u, id) ==
  /\ \E k \in PositionOf(u, id) :
       /\ tasks[u][k].status = "pending"
       /\ tasks' = [tasks EXCEPT ![u][k].status = "running"]
  /\ UNCHANGED <<dispatch, created, emails, unique_index, webhook, processing, hour, last_run, limiter>>

\* _wrapper after the await: completed, or failed when the coroutine raised.
wrapper_finish(u, id) ==
  /\ \E k \in PositionOf(u, id), raised \in BOOLEAN :
       /\ tasks[u][k].status = "running"
       /\ tasks' = [tasks EXCEPT ![u][k].status = IF raised THEN "failed" ELSE "completed"]
  /\ UNCHANGED <<dispatch, created, emails, unique_index, webhook, processing, hour, last_run, limiter>>

\* get_task on a user's list: the entry with that id, if the list holds one.
get_task(list, id) == {list[k] : k \in {j \in 1..Len(list) : list[j].id = id}}

\* list_tasks on a user's list: the entries, or with pending_only those not
\* finished.
list_tasks(list, pending_only) ==
  IF pending_only
    THEN SelectSeq(list, LAMBDA t : t.status \in {"pending", "running"})
    ELSE list

NextTasks ==
  \/ \E u \in Users : create_task(u)
  \/ \E u \in Users, id \in 1..MaxTracked : wrapper_start(u, id)
  \/ \E u \in Users, id \in 1..MaxTracked : wrapper_finish(u, id)

\* The task store of a running API process.
InitTasks == Init /\ redis_up /\ account

SpecTasks == InitTasks /\ [][NextTasks]_vars

\* The ids of a list, in the list's order.
IdsOf(list) == [k \in 1..Len(list) |-> list[k].id]

\* The ids lo..hi in increasing order.
IdRun(lo, hi) == [k \in 1..(hi - lo + 1) |-> lo + k - 1]

\* C27: every user's list holds at most 50 entries, which are the most recently
\* created tasks of the user in creation order (the oldest are evicted first),
\* and a step that creates no task for a user leaves that user's list as it was.
C27_BoundedOldestFirst ==
  [][\A u \in Users :
       /\ Len(tasks'[u]) <= 50
       /\ Len(tasks'[u]) = IF created'[u] < 50 THEN created'[u] ELSE 50
       /\ IdsOf(tasks'[u]) = IdRun(created'[u] - Len(tasks'[u]) + 1, created'[u])
       /\ (created'[u] = created[u] => IdsOf(tasks'[u]) = IdsOf(tasks[u]))]_vars

\* A user has created more tasks than the cap, so the oldest was evicted,
\* while the other user's list holds tasks.
C27_Witness ==
  \E u, v \in Users :
    /\ u # v
    /\ created[u] > 50 /\ Len(tasks[u]) = 50 /\ tasks[u][1].id = created[u] - 49
    /\ Len(tasks[v]) > 0

\* ------------------------------------------------------------- rate_limit
\* The limit each bucket is checked with: the max_requests and window_seconds
\* its routes pass to rate_limit, here small numbers.
max_requests(bucket) == IF bucket = "content_generate" THEN 2 ELSE 1
window_seconds(bucket) == IF bucket = "content_generate" THEN 2 ELSE 3

\* The rejection test with > for >=.
Rejects_above(kept, max) == Len(kept) > max

\* The rejection test of check: len(self._hits[key]) >= max_requests.
Rejects(kept, max) == Len(kept) >= max

\* The pruning of check: the timestamps after the cutoff.
Prune(stamps, cutoff) == SelectSeq(stamps, LAMBDA t : t > cutoff)

\* The check calls made so far on a set of keys.
RECURSIVE TotalChecks(_)
TotalChecks(keys) ==
  IF keys = {} THEN 0
  ELSE LET key == CHOOSE k \in keys : TRUE
       IN Len(log[key]) + TotalChecks(keys \ {key})

\* RateLimiter.check for one key: prune, then raise 429 or record the call.
check(key) ==
  /\ TotalChecks(LimiterKeys) < MaxChecks
  /\ LET bucket == key[2]
         kept == Prune(hits[key], time - window_seconds(bucket))
     IN IF Rejects(kept, max_requests(bucket))
          THEN /\ hits' = [hits EXCEPT ![key] = kept]
               /\ log' = [log EXCEPT ![key] = Append(@, [at |-> time, status |-> 429])]
          ELSE /\ hits' = [hits EXCEPT ![key] = Append(kept, time)]
               /\ log' = [log EXCEPT ![key] = Append(@, [at |-> time, status |-> 200])]
  /\ UNCHANGED <<dispatch, tasks, created, emails, unique_index, webhook, processing, hour,
                 last_run, time>>

\* A second passes.
second_tick ==
  /\ time < MaxSeconds
  /\ time' = time + 1
  /\ UNCHANGED <<dispatch, tasks, created, emails, unique_index, webhook, processing, hour,
                 last_run, hits, log>>

NextLimiter ==
  \/ second_tick
  \/ \E key \in LimiterKeys : check(key)

SpecLimiter == InitTasks /\ [][NextLimiter]_vars

\* How many calls of the log were admitted with a timestamp in (from, to].
AdmittedIn(calls, from, to) ==
  Cardinality({k \in 1..Len(calls) :
                 calls[k].status = 200 /\ calls[k].at > from /\ calls[k].at <= to})

\* C28: per key, every window of window_seconds holds at most max_requests
\* admitted calls; a call is rejected with 429 exactly when max_requests
\* admitted calls of the key lie within the last window_seconds; a rejected
\* call records no timestamp; and a call on one key leaves every other key's
\* timestamps alone.
C28_RollingWindowLimit ==
  [][\A key \in LimiterKeys :
       LET max == max_requests(key[2])
           window == window_seconds(key[2])
       IN /\ \A end \in 0..MaxSeconds + 1 :
               AdmittedIn(log'[key], end - window, end) <= max
          /\ Len(log'[key]) > Len(log[key])
             => /\ (log'[key][Len(log'[key])].status = 429)
                     <=> (AdmittedIn(log[key], time - window, time) >= max)
                /\ log'[key][Len(log'[key])].status = 429
                     => Len(hits'[key]) <= Len(hits[key])
                /\ \A other \in LimiterKeys \ {key} : hits'[other] = hits[other]]_vars

\* A key whose window was full got a call rejected, and after the window moved
\* on a later call of the key was admitted, while another key holds timestamps.
C28_Witness ==
  \E key \in LimiterKeys :
    /\ \E j, k \in 1..Len(log[key]) :
         j < k /\ log[key][j].status = 429 /\ log[key][k].status = 200
    /\ \E other \in LimiterKeys \ {key} : hits[other] # <<>>

\* The ids of the entries of a list.
IdSet(list) == {list[j].id : j \in 1..Len(list)}

\* The ids list_tasks returns for a list, and those among them that get_task
\* finds finished.
ListedIds(list, pending_only) == IdSet(list_tasks(list, pending_only))
FinishedIds(list) ==
  {id \in ListedIds(list, FALSE) :
     \A t \in get_task(list, id) : t.status \in {"completed", "failed"}}

\* C29: a task that is pending or running stays retrievable, whatever the
\* owner creates next: after every step the store still holds it, and
\* list_tasks(pending_only=True) still lists it unless the step finished it.
C29_UnfinishedStaysRetrievable ==
  [][\A u \in Users :
       tasks'[u] # tasks[u]
       => /\ ListedIds(tasks[u], TRUE) \subseteq ListedIds(tasks'[u], FALSE)
          /\ (ListedIds(tasks[u], TRUE) \ ListedIds(tasks'[u], TRUE))
               \subseteq FinishedIds(tasks'[u])]_vars

\* ----------------------------------------------------------- email webhook
\* Several API processes share the emails table and serve deliveries at the
\* same time; the table may or may not refuse a second row of one
\* unipile_email_id.
InitWebhook ==
  /\ InitSide
  /\ unique_index \in BOOLEAN
  /\ now = 0
  /\ store_fails = FALSE
  /\ api = [i \in Items |-> NoRequest]
  /\ redis_up = TRUE
  /\ started = FALSE
  /\ USE_CELERY = FALSE
  /\ content_items = [i \in Items |-> IF i \in InitialItems THEN DraftRow ELSE NoRow]
  /\ account = TRUE
  /\ chains = [c \in Chains |-> IdleChain]
  /\ last_sweep = NoTime
  /\ last_poll = NoTime
  /\ poll = [pc |-> "idle", posts |-> <<>>]
  /\ manual = [i \in Items |-> FALSE]
  /\ posts_made = [i \in Items |-> 0]
  /\ sched_count = [i \in Items |-> 0]

NextWebhook ==
  \/ start_scheduler
  \/ \E d \in Deliveries, e \in EmailIds : email_webhook_select(d, e)
  \/ \E d \in Deliveries : email_webhook_insert(d)

SpecWebhook == InitWebhook /\ [][NextWebhook]_vars

\* The deliveries of an email id that have been answered with that status.
Answered(e, status) ==
  {d \in Deliveries : webhook[d].pc = "done" /\ webhook[d].email_id = e
                                             /\ webhook[d].status = status}

\* C30: whatever mail_received deliveries carry one email_id, and however
\* they overlap, the emails table holds at most one row of that id, processing
\* was started at most once, one delivery at most was accepted and every other
\* answered delivery got status duplicate.
C30_WebhookDeduplicates ==
  \A e \in EmailIds :
    /\ Cardinality({k \in 1..Len(emails) : emails[k].unipile_email_id = e}) <= 1
    /\ processing[e] <= 1
    /\ Cardinality(Answered(e, "accepted")) <= 1
    /\ Answered(e, "error") = {}
====
